---------------------------- MODULE Spec2Model ----------------------------
(***************************************************************************)
(* A model of the notebooks of the repository: conjugate gradients,        *)
(* ADMM for the LASSO, Householder QR for linear regression, the extended  *)
(* Kalman filter and the graphical lasso.                                  *)
(*                                                                         *)
(* Numbers are exact rationals <<n, d>> in lowest terms with d >= 0.  A    *)
(* zero denominator stands for the IEEE values the notebooks' floats can   *)
(* take: <<1, 0>> is Inf, <<-1, 0>> is -Inf and <<0, 0>> is NaN.  The      *)
(* direct methods (conjugate gradients, QR, the Kalman updates) are        *)
(* modelled in exact arithmetic; the ADMM iteration, which only converges  *)
(* in the limit, rounds every stored value to a binary grid, as floating   *)
(* point does.                                                             *)
(*                                                                         *)
(* One notebook runs in a behaviour; nb names it.  Each notebook's state   *)
(* is a record whose pc field is the position in the notebook's cells.     *)
(* rng is the random-number generator of the kernel: its state at the      *)
(* notebook's first draw and the values drawn since.  twin is a second run *)
(* of the same notebook from a fresh kernel, made once the first has       *)
(* finished.                                                               *)
(***************************************************************************)
EXTENDS Integers, Sequences, FiniteSets, TLC

VARIABLES nb, cg, admm, qrs, ekf, glasso, rng, twin

vars == <<nb, cg, admm, qrs, ekf, glasso, rng, twin>>

Off == [pc |-> "off"]

-----------------------------------------------------------------------------
(* Rational arithmetic.                                                    *)

Abs(i) == IF i < 0 THEN -i ELSE i

Sgn(i) == IF i > 0 THEN 1 ELSE IF i < 0 THEN -1 ELSE 0

RECURSIVE Gcd(_, _)
Gcd(a, b) == IF b = 0 THEN a ELSE Gcd(b, a % b)

\* The rational n/d in lowest terms; n/0 is Inf, -Inf or NaN by the sign of n.
Rat(n, d) ==
    IF d = 0 THEN <<Sgn(n), 0>>
    ELSE LET g == Gcd(Abs(n), Abs(d))
             s == Sgn(d)
         IN  <<s * (n \div g), s * (d \div g)>>

R(i) == <<i, 1>>

Zero == <<0, 1>>

One == <<1, 1>>

NaN == <<0, 0>>

IsFinite(a) == a[2] # 0

IsNaN(a) == a = NaN

RNeg(a) == <<-a[1], a[2]>>

RAdd(a, b) ==
    IF IsFinite(a) /\ IsFinite(b)
    THEN LET g == Gcd(a[2], b[2])
         IN  Rat(a[1] * (b[2] \div g) + b[1] * (a[2] \div g), (a[2] \div g) * b[2])
    ELSE IF IsNaN(a) \/ IsNaN(b) THEN NaN
    ELSE IF IsFinite(a) THEN b
    ELSE IF IsFinite(b) THEN a
    ELSE IF a = b THEN a ELSE NaN

RSub(a, b) == RAdd(a, RNeg(b))

RMul(a, b) ==
    IF IsFinite(a) /\ IsFinite(b)
    THEN LET g1 == Gcd(Abs(a[1]), b[2])
             g2 == Gcd(Abs(b[1]), a[2])
         IN  Rat((a[1] \div g1) * (b[1] \div g2), (a[2] \div g2) * (b[2] \div g1))
    ELSE <<Sgn(a[1]) * Sgn(b[1]), 0>>

\* IEEE division: x/0 is Inf or -Inf, 0/0 and Inf/Inf are NaN, x/Inf is 0.
RDiv(a, b) ==
    IF IsFinite(b)
    THEN IF b[1] = 0 THEN <<Sgn(a[1]), 0>>
         ELSE RMul(a, Rat(b[2], b[1]))
    ELSE IF IsFinite(a) /\ ~IsNaN(b) THEN Zero ELSE NaN

\* a < b; every comparison with NaN is false.
RLt(a, b) ==
    IF IsNaN(a) \/ IsNaN(b) THEN FALSE
    ELSE IF IsFinite(a) /\ IsFinite(b) THEN a[1] * b[2] < b[1] * a[2]
    ELSE IF IsFinite(a) THEN b[1] > 0
    ELSE IF IsFinite(b) THEN a[1] < 0
    ELSE a[1] < b[1]

RLe(a, b) == ~IsNaN(a) /\ ~IsNaN(b) /\ ~RLt(b, a)

RAbs(a) == <<Abs(a[1]), a[2]>>

RSign(a) == IF IsNaN(a) THEN NaN ELSE R(Sgn(a[1]))

RMax(a, b) == IF IsNaN(a) \/ IsNaN(b) THEN NaN ELSE IF RLt(a, b) THEN b ELSE a

-----------------------------------------------------------------------------
(* Vectors are sequences of rationals, matrices sequences of rows.         *)

RECURSIVE SumSeq(_)
SumSeq(s) == IF s = <<>> THEN Zero ELSE RAdd(Head(s), SumSeq(Tail(s)))

RECURSIVE MaxSeq(_)
MaxSeq(s) == IF Len(s) = 1 THEN s[1] ELSE RMax(Head(s), MaxSeq(Tail(s)))

Dot(u, v) == SumSeq([i \in 1..Len(u) |-> RMul(u[i], v[i])])

VAdd(u, v) == [i \in 1..Len(u) |-> RAdd(u[i], v[i])]

VSub(u, v) == [i \in 1..Len(u) |-> RSub(u[i], v[i])]

VNeg(u) == [i \in 1..Len(u) |-> RNeg(u[i])]

VScale(c, u) == [i \in 1..Len(u) |-> RMul(c, u[i])]

NRows(M) == Len(M)

NCols(M) == IF Len(M) = 0 THEN 0 ELSE Len(M[1])

Col(M, j) == [i \in 1..Len(M) |-> M[i][j]]

Transpose(M) == [j \in 1..NCols(M) |-> Col(M, j)]

MatVec(M, v) == [i \in 1..Len(M) |-> Dot(M[i], v)]

MatMul(M, N) == [i \in 1..Len(M) |-> [j \in 1..NCols(N) |-> Dot(M[i], Col(N, j))]]

MAdd(M, N) == [i \in 1..Len(M) |-> VAdd(M[i], N[i])]

MSub(M, N) == [i \in 1..Len(M) |-> VSub(M[i], N[i])]

Eye(m) == [i \in 1..m |-> [j \in 1..m |-> IF i = j THEN One ELSE Zero]]

\* An integer vector or matrix as a rational one.
VInt(v) == [i \in 1..Len(v) |-> R(v[i])]

MInt(M) == [i \in 1..Len(M) |-> VInt(M[i])]

\* The matrix M without row i and column j.
Minor(M, i, j) ==
    [r \in 1..(Len(M) - 1) |->
        [c \in 1..(Len(M) - 1) |->
            M[IF r < i THEN r ELSE r + 1][IF c < j THEN c ELSE c + 1]]]

RECURSIVE Det(_)
Det(M) ==
    IF Len(M) = 1 THEN M[1][1]
    ELSE SumSeq([j \in 1..Len(M) |->
            RMul(IF j % 2 = 1 THEN M[1][j] ELSE RNeg(M[1][j]), Det(Minor(M, 1, j)))])

\* An inversion that takes every matrix for invertible.
NeverSingular(M) == FALSE

IsSingular(M) == Det(M) = Zero

\* The inverse of a nonsingular square matrix, by cofactors.
Inverse(M) ==
    LET d == Det(M)
    IN  [i \in 1..Len(M) |->
            [j \in 1..Len(M) |->
                IF Len(M) = 1 THEN RDiv(One, d)
                ELSE RDiv(IF (i + j) % 2 = 0 THEN Det(Minor(M, j, i))
                          ELSE RNeg(Det(Minor(M, j, i))), d)]]

-----------------------------------------------------------------------------
(* The random-number generator.  A fresh kernel's generator starts in a    *)
(* state taken from the clock; a seeding call puts it in the state of the  *)
(* seed.  The values drawn are a function of the state at the first draw.  *)

\* The states a fresh kernel's generator may start in.
Entropy == {0, 1}

Fresh(e) == <<"fresh", e>>

\* np.random.seed(k), set.seed(k)
Seeded(k) == <<"seed", k>>

\* np.random.seed(23) of the conjugate-gradient and of the QR notebook.
CGSeed == 23

QRSeed == 23

\* set.seed(1) of the graphical-lasso notebook.
GlassoSeed == 1

\* The generator at the first draw of each notebook, in a kernel whose
\* generator started in the state fresh.  The ADMM notebook sets no seed.
CGRng(fresh) == Seeded(CGSeed)

AdmmRng(fresh) == fresh

QRRng(fresh) == Seeded(QRSeed)

\* A graphical-lasso notebook without its set.seed(1).
GlassoRngUnseeded(fresh) == fresh

GlassoRng(fresh) == Seeded(GlassoSeed)

-----------------------------------------------------------------------------
(* Conjugate gradients.                                                    *)

\* The tolerance of the while loop.
CGTol == <<1, 1000000>>

\* Symmetric positive-definite matrices A.
CGMatrices ==
    { MInt(<<<<1, 0>>, <<0, 1>>>>),
      MInt(<<<<2, 1>>, <<1, 2>>>>),
      MInt(<<<<2, 0>>, <<0, 1>>>>),
      MInt(<<<<2, -1>>, <<-1, 1>>>>) }

\* The vectors x and the initial guesses xk.
CGVectors == { VInt(<<a, b>>) : a \in -1..1, b \in -1..1 }

\* any(rk > 0.000001): some component exceeds the tolerance.
AnyAbove(rk) == \E i \in 1..Len(rk) : RLt(CGTol, rk[i])

\* The notebook after the data cells, for the drawn A and x: b = A.dot(x).
CGFresh(A, x) ==
    [pc |-> "data", A |-> A, x |-> x, b |-> MatVec(A, x),
     xk |-> <<>>, rk |-> <<>>, pk |-> <<>>, iters |-> 0]

\* The data cells: np.random.seed(23), then A and x are drawn.
CGData ==
    /\ nb = "cg"
    /\ \E A \in CGMatrices, x \in CGVectors :
           /\ cg = CGFresh(A, x)
           /\ \E e \in Entropy :
                  rng = [state |-> CGRng(Fresh(e)), drawn |-> <<A, x>>]

\* rk = A.dot(xk) - b; pk = -rk, for the drawn xk.
CGStarted(s, xk) ==
    LET rk == VSub(MatVec(s.A, xk), s.b)
    IN  [s EXCEPT !.pc = "loop", !.xk = xk, !.rk = rk, !.pk = VNeg(rk)]

\* xk = randn(N); rk = A.dot(xk) - b; pk = -rk
CGStart ==
    /\ nb = "cg" /\ cg.pc = "data"
    /\ \E xk \in CGVectors :
           /\ cg' = CGStarted(cg, xk)
           /\ rng' = [rng EXCEPT !.drawn = Append(rng.drawn, xk)]
    /\ UNCHANGED <<nb, admm, qrs, ekf, glasso, twin>>

\* One pass through the body of the while loop.
CGBody(s) ==
    LET alpha == RDiv(Dot(s.rk, s.rk), Dot(MatVec(s.A, s.pk), s.pk))
        xk    == VAdd(s.xk, VScale(alpha, s.pk))
        rd    == Dot(s.rk, s.rk)
        rk    == VAdd(s.rk, VScale(alpha, MatVec(s.A, s.pk)))
        beta  == RDiv(Dot(rk, rk), rd)
        pk    == VAdd(VNeg(rk), VScale(beta, s.pk))
    IN  [s EXCEPT !.xk = xk, !.rk = rk, !.pk = pk, !.iters = s.iters + 1]

CGStep ==
    /\ nb = "cg" /\ cg.pc = "loop"
    /\ AnyAbove(cg.rk)
    /\ cg' = CGBody(cg)
    /\ UNCHANGED <<nb, admm, qrs, ekf, glasso, rng, twin>>

\* The loop condition is false: the check cells print x, xk, A.dot(x), A.dot(xk).
CGExit ==
    /\ nb = "cg" /\ cg.pc = "loop"
    /\ ~AnyAbove(cg.rk)
    /\ cg' = [cg EXCEPT !.pc = "done"]
    /\ UNCHANGED <<nb, admm, qrs, ekf, glasso, rng, twin>>

\* The whole notebook, run from the drawn values <<A, x, xk>>.
RECURSIVE CGLoop(_)
CGLoop(s) == IF AnyAbove(s.rk) THEN CGLoop(CGBody(s)) ELSE [s EXCEPT !.pc = "done"]

CGRun(drawn) == CGLoop(CGStarted(CGFresh(drawn[1], drawn[2]), drawn[3]))

\* Everything the notebook may draw.
CGDraws == { <<A, x, xk>> : A \in CGMatrices, x \in CGVectors, xk \in CGVectors }

-----------------------------------------------------------------------------
(* ADMM for the LASSO.  Stored values are rounded to multiples of          *)
(* 2^-PrecBits, the model's floating point.                                *)

PrecBits == 8

Prec == 2 ^ PrecBits

\* The number of passes of the for loop, seq(100).
AdmmIters == 100

\* q rounded to the nearest multiple of 1/Prec.
Round(q) ==
    IF ~IsFinite(q) THEN q
    ELSE LET w == q[1] \div q[2]
             r == q[1] % q[2]
             f == (2 * r * Prec + q[2]) \div (2 * q[2])
         IN  Rat(w * Prec + f, Prec)

RoundVec(v) == [i \in 1..Len(v) |-> Round(v[i])]

RoundMat(M) == [i \in 1..Len(M) |-> RoundVec(M[i])]

\* Design matrices X (one row per observation) with their responses y.
AdmmDesigns ==
    { <<<<1, 0>>, <<0, 1>>>>,
      <<<<1, 1>>, <<1, -1>>>>,
      <<<<1>>, <<1>>>> }

AdmmResponses == { <<a, b>> : a \in {-2, 1, 2}, b \in {-2, 1, 2} }

AdmmLambdas == {0, 1}

\* soft.threshold <- function(x, thresh) sign(x) * max(abs(x) - thresh, 0):
\* R's max takes the maximum over all the elements of all its arguments.
SoftThreshold(x, thresh) ==
    LET m == MaxSeq([i \in 1..Len(x) |-> RSub(RAbs(x[i]), thresh)] \o <<Zero>>)
    IN  [i \in 1..Len(x) |-> RMul(RSign(x[i]), m)]

\* The notebook after the simulation cells, for the drawn X and y.
AdmmFresh(X, y, lambda) ==
    [pc |-> "data", X |-> MInt(X), y |-> VInt(y),
     lambda |-> R(lambda), rho |-> One,
     Xty |-> <<>>, XtX |-> <<>>, XtX_rho_in |-> <<>>,
     x_step |-> <<>>, z_step |-> <<>>, u_step |-> <<>>,
     i |-> 0, ols_coefficients |-> <<>>]

\* The simulation cells: X and y are drawn, with no seed set before; lambda and rho.
AdmmData ==
    /\ nb = "admm"
    /\ \E X \in AdmmDesigns, y \in AdmmResponses, lambda \in AdmmLambdas :
           /\ admm = AdmmFresh(X, y, lambda)
           /\ \E e \in Entropy :
                  rng = [state |-> AdmmRng(Fresh(e)), drawn |-> <<X, y>>]

\* Xty <- t(X) %*% y; XtX <- t(X) %*% X; XtX.rho.in <- solve(XtX + rho * diag(p + 1));
\* x.step <- z.step <- u.step <- rep(1, p + 1)
AdmmPrecomputed(s) ==
    LET Xt   == Transpose(s.X)
        XtX  == MatMul(Xt, s.X)
        d    == Len(XtX)
        reg  == [i \in 1..d |-> [j \in 1..d |->
                    RAdd(XtX[i][j], IF i = j THEN s.rho ELSE Zero)]]
        ones == [i \in 1..d |-> One]
    IN  [s EXCEPT !.pc = "loop",
                  !.Xty = MatVec(Xt, s.y), !.XtX = XtX,
                  !.XtX_rho_in = RoundMat(Inverse(reg)),
                  !.x_step = ones, !.z_step = ones, !.u_step = ones]

AdmmPrecompute ==
    /\ nb = "admm" /\ admm.pc = "data"
    /\ admm' = AdmmPrecomputed(admm)
    /\ UNCHANGED <<nb, cg, qrs, ekf, glasso, rng, twin>>

\* The x, z and u updates of one pass of the loop.
AdmmXStep(s) ==
    RoundVec(MatVec(s.XtX_rho_in,
        VAdd(s.Xty, VScale(s.rho, VSub(s.z_step, s.u_step)))))

AdmmZStep(s, x) ==
    RoundVec(SoftThreshold(VAdd(x, s.u_step), RDiv(s.lambda, s.rho)))

AdmmUStep(s, x, z) == RoundVec(VSub(VAdd(s.u_step, x), z))

\* A pass that thresholds the x.step of the pass before.
AdmmBodyZBeforeX(s) ==
    LET x == AdmmXStep(s)
        z == AdmmZStep(s, s.x_step)
        u == AdmmUStep(s, x, z)
    IN  [s EXCEPT !.x_step = x, !.z_step = z, !.u_step = u, !.i = s.i + 1]

AdmmBody(s) ==
    LET x == AdmmXStep(s)
        z == AdmmZStep(s, x)
        u == AdmmUStep(s, x, z)
    IN  [s EXCEPT !.x_step = x, !.z_step = z, !.u_step = u, !.i = s.i + 1]

\* A loop that also stops once a pass no longer changes x.step.
AdmmMoreUntilConverged(s) ==
    s.i < AdmmIters /\ (s.i = 0 \/ AdmmXStep(s) # s.x_step)

\* for (i in seq(100)) { ... }
AdmmMore(s) == s.i < AdmmIters

AdmmStep ==
    /\ nb = "admm" /\ admm.pc = "loop"
    /\ AdmmMore(admm)
    /\ admm' = AdmmBody(admm)
    /\ UNCHANGED <<nb, cg, qrs, ekf, glasso, rng, twin>>

\* ols.coefficients <- coef(lm(y ~ 0 + X)): the least-squares solution.
AdmmCompared(s) ==
    [s EXCEPT !.pc = "done", !.ols_coefficients = MatVec(Inverse(s.XtX), s.Xty)]

AdmmCompare ==
    /\ nb = "admm" /\ admm.pc = "loop"
    /\ ~AdmmMore(admm)
    /\ admm' = AdmmCompared(admm)
    /\ UNCHANGED <<nb, cg, qrs, ekf, glasso, rng, twin>>

\* The whole notebook, run from the drawn values <<X, y>>.
RECURSIVE AdmmLoop(_)
AdmmLoop(s) == IF AdmmMore(s) THEN AdmmLoop(AdmmBody(s)) ELSE AdmmCompared(s)

AdmmRun(drawn, lambda) == AdmmLoop(AdmmPrecomputed(AdmmFresh(drawn[1], drawn[2], lambda)))

\* Everything the notebook may draw.
AdmmDraws == { <<X, y>> : X \in AdmmDesigns, y \in AdmmResponses }

-----------------------------------------------------------------------------
(* The extended Kalman filter.  Angles are held in units of pi: the        *)
(* notebook's beta = pi is BetaPi = 1, and the cosine is taken at the      *)
(* multiples of pi/6 whose cosine is rational.  The sines of the process   *)
(* model and of the Jacobians a_k, l_k and b_k are not computed: the prior *)
(* mean and the Jacobians are taken from sets of rational values.          *)

\* beta = np.pi, in units of pi.
BetaPi == One

\* cos(pi * t) for t a multiple of 1/2 or 1/3.
CosPi(t) ==
    LET u == Rat(t[1] % (2 * t[2]), t[2])
    IN  CASE u \in {Zero}                   -> One
          [] u \in {<<1, 3>>, <<5, 3>>}     -> <<1, 2>>
          [] u \in {<<1, 2>>, <<3, 2>>}     -> Zero
          [] u \in {<<2, 3>>, <<4, 3>>}     -> <<-1, 2>>
          [] u \in {One}                    -> <<-1, 1>>

\* def observation_model(x, w, k, beta): cos(beta * x) + k * w
ObservationModel(x, w, k, beta) ==
    [i \in 1..Len(x) |-> RAdd(CosPi(RMul(beta, x[i])), RMul(k, w[i]))]

\* def update_posterior_mean(y, x, w, k, beta, observation_model, mu_p, K)
UpdatePosteriorMean(y, x, w, k, beta, mu_p, K) ==
    LET obs == ObservationModel(x, w, k, beta)
        su  == MatVec(K, [i \in 1..Len(y) |-> RSub(RSub(y[i], obs[i]), R(2))])
    IN  VAdd(mu_p, su)

\* def j_k(k, dim): np.diag([k] * dim)
j_k(k, dim) == [i \in 1..dim |-> [j \in 1..dim |-> IF i = j THEN k ELSE Zero]]

\* def update_prior_covariance(cov_m, cov_v, A, L)
UpdatePriorCovarianceNoTranspose(cov_m, cov_v, A, L) ==
    LET su1 == MatMul(MatMul(A, cov_m), A)
        su2 == MatMul(MatMul(L, cov_v), L)
    IN  MAdd(su1, su2)

UpdatePriorCovariance(cov_m, cov_v, A, L) ==
    LET su1 == MatMul(MatMul(A, cov_m), Transpose(A))
        su2 == MatMul(MatMul(L, cov_v), Transpose(L))
    IN  MAdd(su1, su2)

\* within of k_k: B.(cov_p.B^T) + J.(cov_w.J^T)
Within(cov_p, cov_w, B, J) ==
    LET cov_p_b == MatMul(cov_p, Transpose(B))
        cov_w_j == MatMul(cov_w, Transpose(J))
    IN  MAdd(MatMul(B, cov_p_b), MatMul(J, cov_w_j))

\* def k_k(cov_p, cov_w, B, J), when np.linalg.inv(within) returns
k_kInverseFirst(cov_p, cov_w, B, J) ==
    MatMul(Inverse(Within(cov_p, cov_w, B, J)), MatMul(cov_p, Transpose(B)))

k_k(cov_p, cov_w, B, J) ==
    MatMul(MatMul(cov_p, Transpose(B)), Inverse(Within(cov_p, cov_w, B, J)))

\* def update_posterior_covariance(K, B, cov_p)
UpdatePosteriorCovarianceRight(K, B, cov_p) ==
    LET I  == Eye(Len(K))
        su == MSub(I, MatMul(K, B))
    IN  MatMul(cov_p, su)

UpdatePosteriorCovariance(K, B, cov_p) ==
    LET I  == Eye(Len(K))
        su == MSub(I, MatMul(K, B))
    IN  MatMul(su, cov_p)

\* x0 = np.array([1/12, 1/6]); mu_m = x0
EkfX0 == <<<<1, 12>>, <<1, 6>>>>

EkfAngles == {Zero, <<1, 3>>, <<1, 2>>, One}

\* The prior means mu_p (the notebook's are sines of its mu_m).
EkfPriorMeans == { <<a, b>> : a \in EkfAngles, b \in EkfAngles }

\* The posterior covariances cov_m: the notebook's zero matrix and another.
EkfPosteriorCovariances ==
    { <<<<Zero, Zero>>, <<Zero, Zero>>>>,
      <<<<One, <<1, 2>>>>, <<<<1, 2>>, One>>>> }

\* cov_v = np.matrix([[1/4, 0], [0, 1/4]])
EkfProcessCovariances == { <<<<<<1, 4>>, Zero>>, <<Zero, <<1, 4>>>>>> }

\* The measurement covariances cov_w: the notebook's and the zero matrix.
EkfMeasurementCovariances ==
    { <<<<<<1, 4>>, Zero>>, <<Zero, <<1, 4>>>>>>,
      <<<<Zero, Zero>>, <<Zero, Zero>>>> }

\* The Jacobians A and L of the process model (the notebook's are diagonal).
EkfProcessJacobians ==
    { <<<<One, Zero>>, <<Zero, R(2)>>>>,
      <<<<One, One>>, <<Zero, One>>>> }

\* The Jacobians B of the observation model (the notebook's are diagonal).
EkfObservationJacobians ==
    { <<<<R(-1), Zero>>, <<Zero, <<1, 2>>>>>>,
      <<<<One, R(2)>>, <<Zero, One>>>>,
      <<<<Zero, Zero>>, <<Zero, Zero>>>> }

EkfMeasurements == { VInt(<<2, 2>>), VInt(<<0, 1>>), VInt(<<-1, 3>>) }

EkfSteps == {1, 2}

\* The state before the prior covariance update: mu_m, cov_m, the noise
\* covariances, the linearisations A, L and B, the prior mean mu_p, the step
\* k and mu_w = 0.  K has no value yet.
EkfData ==
    /\ nb = "ekf"
    /\ rng = [state |-> <<"unused", 0>>, drawn |-> <<>>]
    /\ \E mu_p \in EkfPriorMeans, k \in EkfSteps,
          cov_m \in EkfPosteriorCovariances, cov_v \in EkfProcessCovariances,
          cov_w \in EkfMeasurementCovariances,
          A \in EkfProcessJacobians, L \in EkfProcessJacobians,
          B \in EkfObservationJacobians :
           ekf = [pc |-> "prior", mu_m |-> EkfX0, cov_m |-> cov_m,
                  cov_v |-> cov_v, cov_w |-> cov_w, A |-> A, L |-> L, B |-> B,
                  mu_p |-> mu_p, k |-> R(k), mu_w |-> <<Zero, Zero>>,
                  cov_p |-> <<>>, J |-> <<>>, K |-> <<>>, y |-> <<>>]

\* cov_p = update_prior_covariance(cov_m, cov_v, A, L); J = j_k(k, 2)
EkfPriorCovariance ==
    /\ nb = "ekf" /\ ekf.pc = "prior"
    /\ ekf' = [ekf EXCEPT !.pc = "linearised",
                  !.cov_p = UpdatePriorCovariance(ekf.cov_m, ekf.cov_v, ekf.A, ekf.L),
                  !.J = j_k(ekf.k, 2)]
    /\ UNCHANGED <<nb, cg, admm, qrs, glasso, rng, twin>>

\* K = k_k(cov_p, cov_w, B, J)
EkfGain ==
    /\ nb = "ekf" /\ ekf.pc = "linearised"
    /\ ~IsSingular(Within(ekf.cov_p, ekf.cov_w, ekf.B, ekf.J))
    /\ ekf' = [ekf EXCEPT !.pc = "gain",
                  !.K = k_k(ekf.cov_p, ekf.cov_w, ekf.B, ekf.J)]
    /\ UNCHANGED <<nb, cg, admm, qrs, glasso, rng, twin>>

\* np.linalg.inv(within) raises LinAlgError: k_k returns nothing, K is not
\* assigned and the cells below are not run.
EkfGainRaises ==
    /\ nb = "ekf" /\ ekf.pc = "linearised"
    /\ IsSingular(Within(ekf.cov_p, ekf.cov_w, ekf.B, ekf.J))
    /\ ekf' = [ekf EXCEPT !.pc = "error"]
    /\ UNCHANGED <<nb, cg, admm, qrs, glasso, rng, twin>>

\* y = np.array(...); mu_m = update_posterior_mean(y, mu_p, mu_w, k, beta, observation_model, mu_p, K)
EkfPosteriorMean ==
    /\ nb = "ekf" /\ ekf.pc = "gain"
    /\ \E y \in EkfMeasurements :
           ekf' = [ekf EXCEPT !.pc = "posterior_mean", !.y = y,
                      !.mu_m = UpdatePosteriorMean(y, ekf.mu_p, ekf.mu_w, ekf.k,
                                                   BetaPi, ekf.mu_p, ekf.K)]
    /\ UNCHANGED <<nb, cg, admm, qrs, glasso, rng, twin>>

\* cov_m = update_posterior_covariance(K, B, cov_p)
EkfPosteriorCovariance ==
    /\ nb = "ekf" /\ ekf.pc = "posterior_mean"
    /\ ekf' = [ekf EXCEPT !.pc = "done",
                  !.cov_m = UpdatePosteriorCovariance(ekf.K, ekf.B, ekf.cov_p)]
    /\ UNCHANGED <<nb, cg, admm, qrs, glasso, rng, twin>>

-----------------------------------------------------------------------------
(* Householder QR and the regression that uses it.  The inputs are         *)
(* matrices whose Householder norms are rational, so that np.linalg.norm   *)
(* is exact.                                                               *)

\* The integer square root, by Newton's iteration from x.
RECURSIVE Newton(_, _)
Newton(n, x) ==
    LET y == (x + n \div x) \div 2
    IN  IF y >= x THEN x ELSE Newton(n, y)

ISqrt(n) == IF n = 0 THEN 0 ELSE Newton(n, n)

IsSquare(n) == ISqrt(n) * ISqrt(n) = n

\* The square root of a rational.  A root that is not rational cannot be held
\* exactly and is NaN; no input of the model has such a norm.
RSqrt(q) ==
    IF ~IsFinite(q) THEN q
    ELSE IF q[1] >= 0 /\ IsSquare(q[1]) /\ IsSquare(q[2])
         THEN <<ISqrt(q[1]), ISqrt(q[2])>>
         ELSE NaN

\* np.copysign(nrm, a0)
CopySign(nrm, a0) == IF a0[1] < 0 THEN RNeg(nrm) ELSE nrm

\* House without the line v[0] = 1.
HouseNoUnit(a) ==
    LET k  == Len(a)
        I  == Eye(k)
        v  == [j \in 1..k |->
                  RDiv(a[j], RAdd(a[1], CopySign(RSqrt(Dot(a, a)), a[1])))]
        c  == RDiv(R(2), Dot(v, v))
    IN  [r \in 1..k |-> [j \in 1..k |-> RSub(I[r][j], RMul(c, RMul(v[r], v[j])))]]

\* def House(a), for a non-empty a.
House(a) ==
    LET k  == Len(a)
        I  == Eye(k)
        v0 == [j \in 1..k |->
                  RDiv(a[j], RAdd(a[1], CopySign(RSqrt(Dot(a, a)), a[1])))]
        v  == [v0 EXCEPT ![1] = One]
        c  == RDiv(R(2), Dot(v, v))
    IN  [r \in 1..k |-> [j \in 1..k |-> RSub(I[r][j], RMul(c, RMul(v[r], v[j])))]]

\* H = np.eye(m); H[i:, i:] = House(A[i:, i]), i counted from 0.
Reflector(A, m, i) ==
    LET Hs == House([r \in 1..(m - i) |-> A[r + i][i + 1]])
        I  == Eye(m)
    IN  [r \in 1..m |-> [j \in 1..m |->
            IF r > i /\ j > i THEN Hs[r - i][j - i] ELSE I[r][j]]]

\* range(n - 1) whatever the shape.
QRPassesOneFewer(m, n) == n - 1

\* range(n - (m == n)): the number of passes of the loop of qr.
QRPasses(m, n) == n - (IF m = n THEN 1 ELSE 0)

\* Q = np.dot(H, Q)
QRUpdateQFlipped(Q, H) == MatMul(H, Q)

\* Q = np.dot(Q, H)
QRUpdateQ(Q, H) == MatMul(Q, H)

\* A = np.dot(H, A)
QRUpdateA(H, A) == MatMul(H, A)

\* R[:P, :P] and Q[:, :P]
TruncateR(Rm, P) ==
    [r \in 1..(IF Len(Rm) < P THEN Len(Rm) ELSE P) |-> SubSeq(Rm[r], 1, P)]

TruncateQ(Q, P) == [r \in 1..Len(Q) |-> SubSeq(Q[r], 1, P)]

\* linalg.solve_triangular(Rm, b): back substitution on the upper triangle.
RECURSIVE BackSubstitute(_, _, _, _)
BackSubstitute(Rm, b, i, acc) ==
    IF i = 0 THEN acc
    ELSE LET n   == Len(Rm)
             sum == SumSeq([j \in 1..(n - i) |-> RMul(Rm[i][i + j], acc[j])])
             xi  == RDiv(RSub(b[i], sum), Rm[i][i])
         IN  BackSubstitute(Rm, b, i - 1, <<xi>> \o acc)

\* solve_triangular(Rm, b, lower=True): forward substitution on the lower triangle.
RECURSIVE ForwardSubstitute(_, _, _, _)
ForwardSubstitute(Rm, b, i, acc) ==
    IF i > Len(Rm) THEN acc
    ELSE LET sum == SumSeq([j \in 1..(i - 1) |-> RMul(Rm[i][j], acc[j])])
             xi  == RDiv(RSub(b[i], sum), Rm[i][i])
         IN  ForwardSubstitute(Rm, b, i + 1, acc \o <<xi>>)

SolveTriangularLower(Rm, b) == ForwardSubstitute(Rm, b, 1, <<>>)

SolveTriangular(Rm, b) == BackSubstitute(Rm, b, Len(Rm), <<>>)

\* Full-rank design matrices x: square, tall and wide.
QRMatrices ==
    { <<<<3, 1>>, <<4, 2>>>>,
      <<<<0, 1>>, <<2, 3>>>>,
      <<<<-4, -4>>, <<-3, -2>>>>,
      <<<<3>>, <<4>>>>,
      <<<<-2, -2>>, <<-2, -1>>, <<-1, 0>>>>,
      <<<<1, 3>>, <<2, 3>>, <<2, 0>>>>,
      <<<<-2, -2, -2>>, <<-2, -1, -2>>, <<-1, 0, 2>>>>,
      <<<<1, 2>>>>,
      <<<<-1, -1, -1>>, <<0, -1, 1>>>> }

\* The responses y, one entry per row of x.
QRResponses(m) == { y \in {<<1>>, <<1, 0>>, <<1, 2>>, <<-1, 3>>,
                           <<1, 0, 0>>, <<1, 2, -1>>, <<0, 3, 1>>} : Len(y) = m }

\* The notebook after the data cell, for the drawn x.
QRFresh(x) ==
    [pc |-> "data", x |-> MInt(x), m |-> 0, n |-> 0, i |-> 0,
     A |-> <<>>, Q |-> <<>>, R |-> <<>>, y |-> <<>>,
     beta_qr |-> <<>>, fit_params |-> <<>>]

\* The data cell: np.random.seed(23), then the design matrix x is drawn.
QRData ==
    /\ nb = "qr"
    /\ \E x \in QRMatrices :
           /\ qrs = QRFresh(x)
           /\ \E e \in Entropy :
                  rng = [state |-> QRRng(Fresh(e)), drawn |-> <<x>>]

\* Q, R = qr(x): m, n = A.shape; Q = np.eye(m)
QRCalled(s) ==
    [s EXCEPT !.pc = "loop", !.m = NRows(s.x), !.n = NCols(s.x),
              !.i = 0, !.A = s.x, !.Q = Eye(NRows(s.x))]

QRCall ==
    /\ nb = "qr" /\ qrs.pc = "data"
    /\ qrs' = QRCalled(qrs)
    /\ UNCHANGED <<nb, cg, admm, ekf, glasso, rng, twin>>

\* One pass of the loop of qr.
QRBody(s) ==
    LET H == Reflector(s.A, s.m, s.i)
    IN  [s EXCEPT !.Q = QRUpdateQ(s.Q, H), !.A = QRUpdateA(H, s.A), !.i = s.i + 1]

QRStep ==
    /\ nb = "qr" /\ qrs.pc = "loop"
    /\ qrs.i < QRPasses(qrs.m, qrs.n)
    /\ qrs.i < qrs.m
    /\ qrs' = QRBody(qrs)
    /\ UNCHANGED <<nb, cg, admm, ekf, glasso, rng, twin>>

\* A[i:, i] is empty once i reaches m: a[0] in House raises IndexError.
QRRaise ==
    /\ nb = "qr" /\ qrs.pc = "loop"
    /\ qrs.i < QRPasses(qrs.m, qrs.n)
    /\ qrs.i >= qrs.m
    /\ qrs' = [qrs EXCEPT !.pc = "error"]
    /\ UNCHANGED <<nb, cg, admm, ekf, glasso, rng, twin>>

\* return Q, A
QRReturn ==
    /\ nb = "qr" /\ qrs.pc = "loop"
    /\ qrs.i = QRPasses(qrs.m, qrs.n)
    /\ qrs' = [qrs EXCEPT !.pc = "returned", !.R = qrs.A]
    /\ UNCHANGED <<nb, cg, admm, ekf, glasso, rng, twin>>

\* R = R[:P, :P]; Q = Q[:, :P]; beta_qr = linalg.solve_triangular(R, np.dot(Q.T, y));
\* fit = sm.OLS(y, x).fit(), the reference least-squares solution.
QRSolved(s, y) ==
    LET P  == s.n
        Rt == TruncateR(s.R, P)
        Qt == TruncateQ(s.Q, P)
        yr == VInt(y)
        Xt == Transpose(s.x)
    IN  [s EXCEPT !.pc = "solved", !.R = Rt, !.Q = Qt, !.y = yr,
                  !.beta_qr = SolveTriangular(Rt, MatVec(Transpose(Qt), yr)),
                  !.fit_params = MatVec(Inverse(MatMul(Xt, s.x)), MatVec(Xt, yr))]

\* The response y of the data cell is drawn after x, from the same generator.
QRSolve ==
    /\ nb = "qr" /\ qrs.pc = "returned"
    /\ \E y \in QRResponses(qrs.m) :
           /\ qrs' = QRSolved(qrs, y)
           /\ rng' = [rng EXCEPT !.drawn = Append(rng.drawn, y)]
    /\ UNCHANGED <<nb, cg, admm, ekf, glasso, twin>>

\* The whole notebook, run from the drawn values <<x>> or <<x, y>>: it ends
\* in the IndexError of qr or with the coefficients solved.
RECURSIVE QRLoop(_, _)
QRLoop(s, drawn) ==
    IF s.i < QRPasses(s.m, s.n)
    THEN IF s.i < s.m THEN QRLoop(QRBody(s), drawn) ELSE [s EXCEPT !.pc = "error"]
    ELSE QRSolved([s EXCEPT !.pc = "returned", !.R = s.A], drawn[2])

QRRun(drawn) == QRLoop(QRCalled(QRFresh(drawn[1])), drawn)

\* Everything the notebook may draw.
QRDraws ==
    { <<x>> : x \in { w \in QRMatrices : NRows(w) < NCols(w) } }
    \cup UNION { { <<x, y>> : y \in QRResponses(NRows(x)) } :
                    x \in { t \in QRMatrices : NRows(t) >= NCols(t) } }

-----------------------------------------------------------------------------
(* The graphical lasso.  The lasso fit glmnet(W_11, S_12) is the library's; *)
(* the model takes any vector of a small set as its beta.                  *)

\* maxit, the number of sweeps over the columns.
GlassoMaxit == 2

\* lambda <- .1
GlassoLambda == <<1, 10>>

\* Empirical covariances S = cov(X): symmetric.
GlassoCovariances ==
    { MInt(<<<<2, 1, 0>>, <<1, 2, 1>>, <<0, 1, 2>>>>),
      MInt(<<<<1, 0, -1>>, <<0, 1, 0>>, <<-1, 0, 3>>>>) }

\* What the lasso fit may return: all coefficients shrunk to zero, or none.
GlassoBetas == { <<Zero, Zero>>, <<<<-1, 1>>, <<1, 2>>>> }

\* The j-th index of seq(p) without pi.
Other(pi, j) == IF j < pi THEN j ELSE j + 1

\* An update of the column W[-pi, pi] alone.
GlassoUpdateWColumn(W, pi, beta) ==
    LET w12 == MatVec(Minor(W, pi, pi), beta)
    IN  [r \in 1..Len(W) |-> [c \in 1..Len(W) |->
            IF c = pi /\ r # pi THEN w12[IF r < pi THEN r ELSE r - 1]
            ELSE W[r][c]]]

\* W[pi, -pi] <- W[-pi, pi] <- W_11 %*% beta
GlassoUpdateW(W, pi, beta) ==
    LET w12 == MatVec(Minor(W, pi, pi), beta)
    IN  [r \in 1..Len(W) |-> [c \in 1..Len(W) |->
            IF r = pi /\ c # pi THEN w12[IF c < pi THEN c ELSE c - 1]
            ELSE IF c = pi /\ r # pi THEN w12[IF r < pi THEN r ELSE r - 1]
            ELSE W[r][c]]]

\* P[pi, pi] <- 1 / (W[pi, pi] - W[-pi, pi] %*% beta);
\* P[-pi, pi] <- P[pi, -pi] <- -P[pi, pi] * beta
GlassoUpdateP(P, W, pi, beta) ==
    LET w12 == [j \in 1..(Len(W) - 1) |-> W[Other(pi, j)][pi]]
        d   == RDiv(One, RSub(W[pi][pi], Dot(w12, beta)))
        off == VScale(RNeg(d), beta)
    IN  [r \in 1..Len(P) |-> [c \in 1..Len(P) |->
            IF r = pi /\ c = pi THEN d
            ELSE IF r = pi THEN off[IF c < pi THEN c ELSE c - 1]
            ELSE IF c = pi THEN off[IF r < pi THEN r ELSE r - 1]
            ELSE P[r][c]]]

\* The notebook at the head of the loop, for the covariance S of the drawn X;
\* betas lists the lasso fits made so far.
GlassoFresh(S) ==
    [pc |-> "loop", p |-> Len(S), maxit |-> GlassoMaxit, S |-> S,
     W |-> [r \in 1..Len(S) |-> [c \in 1..Len(S) |->
              IF r = c THEN RAdd(S[r][c], GlassoLambda) ELSE S[r][c]]],
     P |-> Eye(Len(S)), i |-> 1, pi |-> 1, updates |-> 0, betas |-> <<>>]

\* The constants and data cells (set.seed(1), then A and X are drawn), then
\* S <- cov(X); W <- S + lambda*diag(p); P <- diag(p).
GlassoData ==
    /\ nb = "glasso"
    /\ \E S \in GlassoCovariances :
           /\ glasso = GlassoFresh(S)
           /\ \E e \in Entropy :
                  rng = [state |-> GlassoRng(Fresh(e)), drawn |-> <<S>>]

\* for (i in seq(maxit)) for (pi in seq(p)): more column updates to do.
GlassoMore(s) == s.i <= s.maxit

\* One column update: the body of the inner loop.
GlassoBody(s, beta) ==
    LET W == GlassoUpdateW(s.W, s.pi, beta)
        P == GlassoUpdateP(s.P, W, s.pi, beta)
    IN  [s EXCEPT !.W = W, !.P = P, !.updates = s.updates + 1,
                  !.pi = IF s.pi = s.p THEN 1 ELSE s.pi + 1,
                  !.i = IF s.pi = s.p THEN s.i + 1 ELSE s.i,
                  !.betas = Append(s.betas, beta)]

GlassoStep ==
    /\ nb = "glasso" /\ glasso.pc = "loop"
    /\ GlassoMore(glasso)
    /\ \E beta \in GlassoBetas : glasso' = GlassoBody(glasso, beta)
    /\ UNCHANGED <<nb, cg, admm, qrs, ekf, rng, twin>>

\* Both loops are exhausted: the plotting cells.
GlassoDone ==
    /\ nb = "glasso" /\ glasso.pc = "loop"
    /\ ~GlassoMore(glasso)
    /\ glasso' = [glasso EXCEPT !.pc = "done"]
    /\ UNCHANGED <<nb, cg, admm, qrs, ekf, rng, twin>>

\* The whole notebook, run from the drawn values <<S>>.  glmnet has no random
\* part: on the same W_11 and S_12 it returns the same fit, so a run on the
\* same data makes the fits of the list fits.
RECURSIVE GlassoLoop(_, _)
GlassoLoop(s, fits) ==
    IF GlassoMore(s) /\ fits # <<>>
    THEN GlassoLoop(GlassoBody(s, Head(fits)), Tail(fits))
    ELSE [s EXCEPT !.pc = "done"]

GlassoRun(drawn, fits) == GlassoLoop(GlassoFresh(drawn[1]), fits)

\* Everything the notebook may draw.
GlassoDraws == { <<S>> : S \in GlassoCovariances }

-----------------------------------------------------------------------------
(* A second run of the notebook from a fresh kernel.  Its generator is in  *)
(* the state of the notebook's seed, or where no seed is set in the state  *)
(* the fresh kernel gave it; from the state of the first run it draws the  *)
(* values of the first run, from another state any values.                 *)

\* The first run has reached its last cell, or stopped at an error.
Finished ==
    CASE nb = "cg"     -> cg.pc = "done"
      [] nb = "admm"   -> admm.pc = "done"
      [] nb = "qr"     -> qrs.pc \in {"solved", "error"}
      [] nb = "glasso" -> glasso.pc = "done"
      [] nb = "ekf"    -> FALSE

\* What the first run has computed.
Outcome ==
    CASE nb = "cg"     -> cg
      [] nb = "admm"   -> admm
      [] nb = "qr"     -> qrs
      [] nb = "glasso" -> glasso

FirstDraw(fresh) ==
    CASE nb = "cg"     -> CGRng(fresh)
      [] nb = "admm"   -> AdmmRng(fresh)
      [] nb = "qr"     -> QRRng(fresh)
      [] nb = "glasso" -> GlassoRng(fresh)

Draws ==
    CASE nb = "cg"     -> CGDraws
      [] nb = "admm"   -> AdmmDraws
      [] nb = "qr"     -> QRDraws
      [] nb = "glasso" -> GlassoDraws

\* What a run of all the cells computes from the values it draws.
Run(drawn) ==
    CASE nb = "cg"     -> CGRun(drawn)
      [] nb = "admm"   -> AdmmRun(drawn, admm.lambda[1])
      [] nb = "qr"     -> QRRun(drawn)
      [] nb = "glasso" -> GlassoRun(drawn, glasso.betas)

\* Restart the kernel and run all the cells again: twin keeps the generator
\* state and the draws of the second run, which determine what it computes.
Rerun ==
    /\ twin.pc = "none"
    /\ Finished
    /\ \E e \in Entropy :
           LET state == FirstDraw(Fresh(e))
           IN  \E drawn \in (IF state = rng.state THEN {rng.drawn} ELSE Draws) :
                   twin' = [pc |-> "done", state |-> state, drawn |-> drawn]
    /\ UNCHANGED <<nb, cg, admm, qrs, ekf, glasso, rng>>

-----------------------------------------------------------------------------

Init ==
    /\ twin = [pc |-> "none"]
    /\ nb \in {"cg", "admm", "qr", "ekf", "glasso"}
    /\ IF nb = "cg" THEN CGData ELSE cg = Off
    /\ IF nb = "admm" THEN AdmmData ELSE admm = Off
    /\ IF nb = "qr" THEN QRData ELSE qrs = Off
    /\ IF nb = "ekf" THEN EkfData ELSE ekf = Off
    /\ IF nb = "glasso" THEN GlassoData ELSE glasso = Off

Next ==
    \/ CGStart
    \/ CGStep
    \/ CGExit
    \/ AdmmPrecompute
    \/ AdmmStep
    \/ AdmmCompare
    \/ QRCall
    \/ QRStep
    \/ QRRaise
    \/ QRReturn
    \/ QRSolve
    \/ EkfPriorCovariance
    \/ EkfGain
    \/ EkfGainRaises
    \/ EkfPosteriorMean
    \/ EkfPosteriorCovariance
    \/ GlassoStep
    \/ GlassoDone
    \/ Rerun

Spec == Init /\ [][Next]_vars

-----------------------------------------------------------------------------
(* Properties of the notebooks.                                            *)

\* The residual A.xk - b of the current xk.
CGResidual == VSub(MatVec(cg.A, cg.xk), cg.b)

(* C1: when the conjugate-gradient loop has exited, every component of the *)
(* residual A.xk - b is at most the tolerance in absolute value.           *)
CGSolvedOnExit ==
    cg.pc = "done" =>
        \A i \in 1..Len(cg.xk) : RLe(RAbs(CGResidual[i]), CGTol)

\* The element-wise soft-thresholding operator of the ADMM markdown.
ElementwiseThreshold(v, thresh) ==
    [i \in 1..Len(v) |->
        RMul(RSign(v[i]), RMax(RSub(RAbs(v[i]), thresh), Zero))]

(* C3: soft.threshold is the element-wise soft-thresholding operator: in   *)
(* every pass of the ADMM loop, component i of the new z.step equals       *)
(* sign(v[i]) * max(|v[i]| - thresh, 0) for v = x.step + u.step, the       *)
(* argument of soft.threshold, and thresh = lambda / rho.                  *)
SoftThresholdIsElementwise ==
    [][(nb = "admm" /\ admm.pc = "loop" /\ admm'.pc = "loop") =>
          admm'.z_step =
              ElementwiseThreshold(VAdd(admm'.x_step, admm.u_step),
                                   RDiv(admm.lambda, admm.rho))]_vars

\* Four units of the rounding grid.
AdmmTol == Rat(4, Prec)

(* C4: with lambda = 0 the coefficient estimate x.step left by the ADMM    *)
(* loop is the ordinary-least-squares estimate, up to the rounding of the  *)
(* arithmetic.                                                             *)
AdmmReachesOLS ==
    (admm.pc = "done" /\ admm.lambda = Zero) =>
        \A i \in 1..Len(admm.x_step) :
            RLe(RAbs(RSub(admm.x_step[i], admm.ols_coefficients[i])), AdmmTol)

(* C2: the posterior mean is mu_p + K.(y - h_k(mu_p, 0)), with h_k(mu_p, 0) *)
(* the observation model at x = mu_p with zero measurement noise; nothing  *)
(* else is added to or subtracted from the innovation.                     *)
PosteriorMeanIsInnovationUpdate ==
    ekf.pc = "posterior_mean" =>
        ekf.mu_m =
            VAdd(ekf.mu_p,
                 MatVec(ekf.K,
                        VSub(ekf.y,
                             ObservationModel(ekf.mu_p, <<Zero, Zero>>, ekf.k, BetaPi))))

(* C5: for an input with at least as many rows as columns and full column  *)
(* rank, the product Q.R of what qr returns equals the input.              *)
QRReproducesX ==
    qrs.pc = "returned" => MatMul(qrs.Q, qrs.R) = qrs.x

QRReturnedTall == qrs.pc = "returned" /\ qrs.m > qrs.n /\ qrs.i = 2

(* C6: the matrix Q returned by qr is orthogonal, Q^T.Q = I.               *)
QIsOrthogonal ==
    qrs.pc = "returned" => MatMul(Transpose(qrs.Q), qrs.Q) = Eye(qrs.m)

QRReturnedReflected ==
    qrs.pc = "returned" /\ qrs.i >= 1 /\ qrs.Q # Eye(qrs.m)

(* C7: the matrix R returned by qr is upper triangular, for tall inputs    *)
(* (n reflections) and for square inputs (n - 1 reflections).              *)
RIsUpperTriangular ==
    qrs.pc = "returned" =>
        \A r \in 1..qrs.m : \A j \in 1..qrs.n : r > j => qrs.R[r][j] = Zero

QRReturnedSquare ==
    qrs.pc = "returned" /\ qrs.m = qrs.n /\ qrs.i = qrs.n - 1 /\ qrs.i > 1

(* C8: the coefficients solved from R[:P,:P].beta = Q[:,:P]^T.y satisfy    *)
(* the normal equations X^T.X.beta = X^T.y, and so equal the reference     *)
(* least-squares coefficients.                                             *)
BetaQRIsLeastSquares ==
    qrs.pc = "solved" =>
        /\ MatVec(MatMul(Transpose(qrs.x), qrs.x), qrs.beta_qr)
               = MatVec(Transpose(qrs.x), qrs.y)
        /\ qrs.beta_qr = qrs.fit_params

QRSolvedTall ==
    qrs.pc = "solved" /\ qrs.m > qrs.n /\ qrs.n = 2 /\ qrs.beta_qr # <<Zero, Zero>>

(* C9: qr completes and returns (Q, R) for every full-rank input of any    *)
(* shape, including inputs with fewer rows than columns.                   *)
QRNeverRaises == qrs.pc # "error"

\* The passes the conjugate-gradient loop makes from the initial guess xk.
RECURSIVE CGPasses(_)
CGPasses(s) == IF AnyAbove(s.rk) THEN CGPasses(CGBody(s)) ELSE s.iters

CGPassesFrom(A, b, xk) ==
    LET rk == VSub(MatVec(A, xk), b)
    IN  CGPasses([A |-> A, b |-> b, xk |-> xk, rk |-> rk, pk |-> VNeg(rk), iters |-> 0])

\* The passes of the for loops: ADMM 100, the graphical lasso maxit * p
\* column updates, Householder n - (m == n).
ForLoopCounts ==
    /\ admm.pc = "done" => admm.i = 100
    /\ glasso.pc = "loop" =>
           glasso.updates = (glasso.i - 1) * glasso.p + (glasso.pi - 1)
    /\ glasso.pc = "done" => glasso.updates = glasso.maxit * glasso.p
    /\ qrs.pc \in {"loop", "error"} =>
           qrs.i <= qrs.n - (IF qrs.m = qrs.n THEN 1 ELSE 0)
    /\ qrs.pc = "returned" => qrs.i = qrs.n - (IF qrs.m = qrs.n THEN 1 ELSE 0)

RunsAgree == twin.drawn = rng.drawn /\ Run(twin.drawn) = Outcome

InnovationMatrix ==
    MAdd(MatMul(MatMul(ekf.B, ekf.cov_p), Transpose(ekf.B)),
         MatMul(MatMul(ekf.J, ekf.cov_w), Transpose(ekf.J)))

(* C12: the gain K returned by k_k satisfies                               *)
(* K.(B.cov_p.B^T + J.cov_w.J^T) = cov_p.B^T, and k_k returns a gain       *)
(* whenever the innovation matrix is invertible.                           *)
GainSolvesGainEquation ==
    /\ ekf.pc \in {"gain", "posterior_mean", "done"} =>
           MatMul(ekf.K, InnovationMatrix) = MatMul(ekf.cov_p, Transpose(ekf.B))
    /\ ekf.pc = "error" => Det(InnovationMatrix) = Zero

GainReturned ==
    ekf.pc = "gain" /\ ekf.K[1][2] # Zero /\ ekf.cov_p[1][2] # Zero

\* Entry (i, j) of M.C.M^T is the sum of M[i][a] * C[a][b] * M[j][b].
Sandwich(M, C) ==
    [i \in 1..Len(M) |-> [j \in 1..Len(M) |->
        SumSeq([a \in 1..Len(C) |->
            SumSeq([b \in 1..Len(C) |-> RMul(RMul(M[i][a], C[a][b]), M[j][b])])])]]

(* C13: update_prior_covariance returns A.cov_m.A^T + L.cov_v.L^T, which   *)
(* for a zero cov_m is L.cov_v.L^T.                                        *)
PriorCovarianceIsSum ==
    ekf.pc \in {"linearised", "gain", "posterior_mean", "error"} =>
        /\ ekf.cov_p = MAdd(Sandwich(ekf.A, ekf.cov_m), Sandwich(ekf.L, ekf.cov_v))
        /\ (\A i, j \in 1..2 : ekf.cov_m[i][j] = Zero) =>
               ekf.cov_p = Sandwich(ekf.L, ekf.cov_v)

PriorCovarianceUpdated ==
    /\ ekf.pc = "linearised"
    /\ ekf.cov_m[1][2] # Zero
    /\ ekf.A[1][2] # Zero
    /\ ekf.L[1][2] # Zero

(* C14: update_posterior_covariance returns (I - K.B).cov_p: entry (i, j)  *)
(* is the sum over a of (I[i][a] - (K.B)[i][a]) * cov_p[a][j].             *)
PosteriorCovarianceIsUpdate ==
    ekf.pc = "done" =>
        ekf.cov_m =
            [i \in 1..Len(ekf.K) |-> [j \in 1..Len(ekf.K) |->
                SumSeq([a \in 1..Len(ekf.K) |->
                    RMul(RSub(IF i = a THEN One ELSE Zero,
                              Dot(ekf.K[i], Col(ekf.B, a))),
                         ekf.cov_p[a][j])])]]

PosteriorCovarianceUpdated ==
    /\ ekf.pc = "done"
    /\ ekf.K[1][2] # Zero
    /\ ekf.cov_p[1][2] # Zero
    /\ ekf.cov_m # ekf.cov_p

AdmmUpdatesInOrder ==
    [][(nb = "admm" /\ admm.pc = "loop" /\ admm'.pc = "loop") =>
           /\ admm'.x_step =
                  RoundVec(MatVec(admm.XtX_rho_in,
                      VAdd(admm.Xty, VScale(admm.rho, VSub(admm.z_step, admm.u_step)))))
           /\ admm'.z_step =
                  RoundVec(SoftThreshold(VAdd(admm'.x_step, admm.u_step),
                                         RDiv(admm.lambda, admm.rho)))
           /\ admm'.u_step =
                  RoundVec(VSub(VAdd(admm.u_step, admm'.x_step), admm'.z_step))]_vars

AdmmPassedTwice ==
    /\ admm.pc = "loop" /\ admm.i >= 2
    /\ admm.x_step # admm.z_step
    /\ \E i \in 1..Len(admm.u_step) : admm.u_step[i] # Zero

IsSymmetric(M) == \A r, c \in 1..Len(M) : M[r][c] = M[c][r]

(* C17: the estimated covariance W and the estimated precision P are       *)
(* symmetric at initialisation and after every column update of the        *)
(* graphical-lasso loop, whatever the lasso fits return.                   *)
WAndPAreSymmetric ==
    nb = "glasso" => IsSymmetric(glasso.W) /\ IsSymmetric(glasso.P)

GlassoColumnsUpdated ==
    /\ nb = "glasso" /\ glasso.updates >= 2
    /\ glasso.W[1][2] # glasso.S[1][2]
    /\ glasso.P[1][2] # Zero
    /\ glasso.P[2][3] # Zero

=============================================================================
